---- MODULE Spec2Model ----
(***************************************************************************)
(* A model of the neweats REST backend: the relational store (users,       *)
(* recipes, recipes_users, shopping_list), the data-access classes User,   *)
(* RecipesUsers, Recipe and ShoppingList, the credential middleware and    *)
(* the express routes that tie them together.                              *)
(*                                                                         *)
(* Path parameters and stringified ids are sequences of one-character      *)
(* strings (<<"1">>, <<"N","a","N">>) so that String(), parseInt() and the *)
(* store's integer input conversion are computed, not assumed.  Every      *)
(* other text value (names, labels, ingredients) is an opaque string.      *)
(***************************************************************************)
EXTENDS Integers, Sequences, FiniteSets, Bags, TLC

VARIABLES
  db,        \* the relational store behind the single pg Client
  issued,    \* the credential tokens handed out by the /auth routes so far
  req,       \* the request (or data-access call) handled last
  res,       \* its response: status and body (or the call's return value)
  locals,    \* res.locals of that request: the identity context
  nextErr,   \* what the gate middleware passed to next()
  stage      \* position of the request in the middleware pipeline

vars == <<db, issued, req, res, locals, nextErr, stage>>

(***************************************************************************)
(* Bounds of the model.                                                    *)
(***************************************************************************)
MaxUsers == 2      \* users the server registers
MaxListUsers == 1  \* users registered when the ShoppingList class is called directly
MaxListLen == 3    \* longest stored ingredients array

NULL == "<null>"           \* SQL NULL / a column left out of an INSERT
Undefined == "<undefined>" \* a JS property that is not there

(***************************************************************************)
(* JS values that can sit in a claims payload's user_id: a number or a     *)
(* string.  Both fields are always present so that two values compare.     *)
(***************************************************************************)
Num(n) == [t |-> "number", n |-> n, s |-> <<>>]
Str(s) == [t |-> "string", n |-> 0, s |-> s]

Digits == <<"0", "1", "2", "3", "4", "5", "6", "7", "8", "9">>

IsDigit(c) == \E i \in 1..10 : Digits[i] = c

DigitVal(c) == (CHOOSE i \in 1..10 : Digits[i] = c) - 1

RECURSIVE NumToString(_)
NumToString(n) ==
  IF n < 10 THEN <<Digits[n + 1]>>
  ELSE NumToString(n \div 10) \o <<Digits[(n % 10) + 1]>>

\* String(v): a number prints in decimal, a string is itself
StringOf(v) == IF v.t = "number" THEN NumToString(v.n) ELSE v.s

RECURSIVE DigitPrefix(_)
DigitPrefix(s) ==
  IF s = <<>> \/ ~IsDigit(Head(s)) THEN <<>>
  ELSE <<Head(s)>> \o DigitPrefix(Tail(s))

RECURSIVE DigitsValue(_)
DigitsValue(s) ==
  IF s = <<>> THEN 0
  ELSE 10 * DigitsValue(SubSeq(s, 1, Len(s) - 1)) + DigitVal(s[Len(s)])

RECURSIVE SkipSpaces(_)
SkipSpaces(s) ==
  IF s # <<>> /\ Head(s) = " " THEN SkipSpaces(Tail(s)) ELSE s

\* parseInt(s): leading blanks and a sign are skipped, the longest run of
\* digits is the value, and there is no value (NaN) when that run is empty
parseInt(s) ==
  LET t == SkipSpaces(s)
      neg == t # <<>> /\ Head(t) = "-"
      u == IF t # <<>> /\ Head(t) \in {"-", "+"} THEN Tail(t) ELSE t
      d == DigitPrefix(u)
  IN IF d = <<>> THEN [nan |-> TRUE, n |-> 0]
     ELSE [nan |-> FALSE, n |-> IF neg THEN 0 - DigitsValue(d) ELSE DigitsValue(d)]

isNaN(x) == x.nan

(***************************************************************************)
(* expressError.js                                                         *)
(***************************************************************************)
NoError == [status |-> 0, message |-> "none"]
ExpressError(message, status) == [status |-> status, message |-> message]
NotFoundError(message) == ExpressError(message, 404)
UnauthorizedError(message) == ExpressError(message, 401)
BadRequestError(message) == ExpressError(message, 400)
\* an error that is no ExpressError (store failure, TypeError): app.js
\* answers it with the default status
StoreError(message) == ExpressError(message, 500)

(***************************************************************************)
(* jsonwebtoken: a token is its payload and the key it was signed with.    *)
(***************************************************************************)
SECRET_KEY == "SECRET_KEY"
Times == {1}    \* values of the clock at signing time

jwtSign(payload, key, now) ==
  [payload |-> payload @@ [iat |-> now], key |-> key]

jwtVerifies(token, key) == token.key = key

\* createToken signing the whole user object
createToken_wholeUser(user, now) == jwtSign(user, SECRET_KEY, now)

\* createToken(user): the payload is built from two properties of user
createToken(user, now) ==
  jwtSign([firstName |-> user.firstName, user_id |-> user.user_id],
          SECRET_KEY, now)


(***************************************************************************)
(* middleware/auth.js.  The Authorization header is absent or carries      *)
(* "Bearer <token>".                                                       *)
(***************************************************************************)
NoToken == [payload |-> <<>>, key |-> "none"]
NoAuthorization == [present |-> FALSE, token |-> NoToken]
Bearer(token) == [present |-> TRUE, token |-> token]

NoLocals == <<>>    \* res.locals = {}

NotCalled == [status |-> -1, message |-> "next not called"]

\* authenticateJWT with a bad token reporting the failure to next()
authenticateJWT_rejecting(headers) ==
  IF headers.authorization.present
  THEN IF jwtVerifies(headers.authorization.token, SECRET_KEY)
       THEN [locals |-> [user |-> headers.authorization.token.payload],
             next |-> NoError]
       ELSE [locals |-> NoLocals, next |-> UnauthorizedError("Unauthorized")]
  ELSE [locals |-> NoLocals, next |-> NoError]

\* authenticateJWT(req, res, next): a token that verifies is stored as
\* res.locals.user; anything else leaves res.locals alone; next() has no
\* argument in either case
authenticateJWT(headers) ==
  IF headers.authorization.present
     /\ jwtVerifies(headers.authorization.token, SECRET_KEY)
  THEN [locals |-> [user |-> headers.authorization.token.payload],
        next |-> NoError]
  ELSE [locals |-> NoLocals, next |-> NoError]

\* ensureCorrectUser comparing with === and no conversion to a string
ensureCorrectUser_strict(loc, params) ==
  IF "user" \notin DOMAIN loc
  THEN UnauthorizedError("AuthenticationRequired")
  ELSE IF loc.user.user_id.t # "string" \/ loc.user.user_id.s # params.user_id
       THEN UnauthorizedError("OwnershipMismatch")
       ELSE NoError

\* ensureCorrectUser(req, res, next): the result is what next() receives
ensureCorrectUser(loc, params) ==
  IF "user" \notin DOMAIN loc
  THEN UnauthorizedError("AuthenticationRequired")
  ELSE IF StringOf(loc.user.user_id) # params.user_id
       THEN UnauthorizedError("OwnershipMismatch")
       ELSE NoError

(***************************************************************************)
(* The store as created by neweats-schema.sql: four empty tables and the   *)
(* users_user_id_seq sequence.  A table is a function from its key to the  *)
(* row; recipes_users has no key and is a bag of rows.                     *)
(***************************************************************************)
EmptyTable == <<>>

EmptyDb ==
  [users |-> EmptyTable,
   users_user_id_seq |-> 0,
   recipes |-> EmptyTable,
   recipes_users |-> EmptyBag,
   shopping_list |-> EmptyTable]

(***************************************************************************)
(* Helpers on tables and arrays.                                           *)
(***************************************************************************)
\* the table without the rows whose key is in keys
DeleteRows(table, keys) == [k \in (DOMAIN table) \ keys |-> table[k]]

\* the table with the row of key k inserted or replaced
PutRow(table, k, row) == (k :> row) @@ table

Elems(a) == {a[i] : i \in 1..Len(a)}

\* a <@ b on arrays: every element of a is an element of b
ContainedBy(a, b) == Elems(a) \subseteq Elems(b)

\* the result of a data-access call: the store afterwards, the error thrown
\* (NoError when it returned) and the value returned
Returned(d, value) == [db |-> d, err |-> NoError, ret |-> value]
Thrown(d, e) == [db |-> d, err |-> e, ret |-> Undefined]

\* the pg driver hands an integer column to JS as a number
Int4ToJs(n) == Num(n)

\* the store reading a text parameter as an integer: all digits, or it is
\* "invalid input syntax for type integer"
Int4In(s) ==
  IF s # <<>> /\ DigitPrefix(s) = s
  THEN [ok |-> TRUE, n |-> DigitsValue(s)]
  ELSE [ok |-> FALSE, n |-> 0]

(***************************************************************************)
(* models/shopping-list.js.  A method returns an array of ingredients or   *)
(* a { message } object; both shapes carry the same fields so that any two *)
(* returned values compare.                                                *)
(***************************************************************************)
ArrayOf(a) == [isArray |-> TRUE, items |-> a, message |-> ""]
MessageOf(m) == [isArray |-> FALSE, items |-> <<>>, message |-> m]

\* getUserShoppingList treating a missing row like the other look-ups do
getUserShoppingList_throwing(d, user_id) ==
  IF user_id \in DOMAIN d.shopping_list
  THEN Returned(d, ArrayOf(d.shopping_list[user_id]))
  ELSE Thrown(d, NotFoundError("No shopping list"))

\* SELECT ingredients FROM shopping_list WHERE user_id = $1
getUserShoppingList(d, user_id) ==
  IF user_id \in DOMAIN d.shopping_list
  THEN Returned(d, ArrayOf(d.shopping_list[user_id]))
  ELSE Returned(d, ArrayOf(<<>>))

\* the upsert of addRecipeIngredients replacing the stored array
MergeUpsert_replacing(d, user_id, ingredients) ==
  IF user_id \notin DOMAIN d.users
  THEN Thrown(d, StoreError("violates foreign key constraint fk_user_shopping_list"))
  ELSE Returned([d EXCEPT !.shopping_list = PutRow(@, user_id, ingredients)], 1)

\* the upsert of addRecipeIngredients without its WHERE clause
MergeUpsert_always(d, user_id, ingredients) ==
  IF user_id \notin DOMAIN d.users
  THEN Thrown(d, StoreError("violates foreign key constraint fk_user_shopping_list"))
  ELSE IF user_id \notin DOMAIN d.shopping_list
  THEN Returned([d EXCEPT !.shopping_list = PutRow(@, user_id, ingredients)], 1)
  ELSE Returned([d EXCEPT !.shopping_list[user_id] = @ \o ingredients], 1)

\* INSERT INTO shopping_list (user_id, ingredients) VALUES ($1, $2)
\* ON CONFLICT (user_id) DO UPDATE
\*   SET ingredients = shopping_list.ingredients || $2
\*   WHERE NOT ($2 <@ shopping_list.ingredients)
MergeUpsert(d, user_id, ingredients) ==
  IF user_id \notin DOMAIN d.users
  THEN Thrown(d, StoreError("violates foreign key constraint fk_user_shopping_list"))
  ELSE IF user_id \notin DOMAIN d.shopping_list
  THEN Returned([d EXCEPT !.shopping_list = PutRow(@, user_id, ingredients)], 1)
  ELSE IF ~ContainedBy(ingredients, d.shopping_list[user_id])
  THEN Returned([d EXCEPT !.shopping_list[user_id] = @ \o ingredients], 1)
  ELSE Returned(d, 0)

\* addRecipeIngredients that skips the look-up of the user
addRecipeIngredients_nocheck(d, user_id, ingredients) ==
  LET up == MergeUpsert(d, user_id, ingredients)
  IN IF up.err # NoError THEN up
     ELSE getUserShoppingList(up.db, user_id)

addRecipeIngredients(d, user_id, ingredients) ==
  IF user_id \notin DOMAIN d.users     \* SELECT 1 FROM users WHERE user_id = $1
  THEN Thrown(d, NotFoundError("No user found with ID"))
  ELSE LET up == MergeUpsert(d, user_id, ingredients)
       IN IF up.err # NoError THEN up
          ELSE getUserShoppingList(up.db, user_id)

UpdateListMessage == MessageOf("Shopping list updated successfully.")

\* updateList deleting the row when given the empty array
updateList_clearing(d, user_id, ingredients) ==
  IF user_id \notin DOMAIN d.users
  THEN Thrown(d, StoreError("violates foreign key constraint fk_user_shopping_list"))
  ELSE IF ingredients = <<>>
  THEN Returned([d EXCEPT !.shopping_list = DeleteRows(@, {user_id})],
                UpdateListMessage)
  ELSE Returned([d EXCEPT !.shopping_list = PutRow(@, user_id, ingredients)],
                UpdateListMessage)

\* updateList on a table without fk_user_shopping_list
updateList_unowned(d, user_id, ingredients) ==
  Returned([d EXCEPT !.shopping_list = PutRow(@, user_id, ingredients)],
           UpdateListMessage)

\* updateList whose upsert merges like addRecipeIngredients
updateList_merging(d, user_id, ingredients) ==
  LET up == MergeUpsert(d, user_id, ingredients)
  IN IF up.err # NoError THEN up ELSE Returned(up.db, UpdateListMessage)

\* INSERT INTO shopping_list (user_id, ingredients) VALUES ($1, $2)
\* ON CONFLICT (user_id) DO UPDATE SET ingredients = $2
updateList(d, user_id, ingredients) ==
  IF user_id \notin DOMAIN d.users
  THEN Thrown(d, StoreError("violates foreign key constraint fk_user_shopping_list"))
  ELSE Returned([d EXCEPT !.shopping_list = PutRow(@, user_id, ingredients)],
                UpdateListMessage)

(***************************************************************************)
(* models/user.js: class User                                              *)
(***************************************************************************)
\* bcrypt: the digest of a plaintext, and the comparison against a digest
bcryptHash(plain) == "$2b$" \o plain
bcryptCompare(plain, digest) == digest = bcryptHash(plain)

\* the columns a statement projects, under the names it gives them
Profile(d, id) ==
  [user_id |-> Int4ToJs(id),
   firstName |-> d.users[id].first_name,
   lastName |-> d.users[id].last_name,
   email |-> d.users[id].email]

ProfileWithUsername(d, id) ==
  Profile(d, id) @@ [username |-> d.users[id].username]

ProfileWithGoogleId(d, id) ==
  Profile(d, id) @@ [googleId |-> d.users[id].google_id]

UserIdsWhere(d, column, value) ==
  {id \in DOMAIN d.users : d.users[id][column] = value}

\* authenticate that tells a missing user from a wrong password
authenticate_telling(d, username, password) ==
  LET found == UserIdsWhere(d, "username", username)
  IN IF found = {} THEN Thrown(d, UnauthorizedError("Invalid username"))
     ELSE IF bcryptCompare(password, d.users[CHOOSE id \in found : TRUE].password)
     THEN Returned(d, ProfileWithUsername(d, CHOOSE id \in found : TRUE))
     ELSE Thrown(d, UnauthorizedError("Invalid password"))

authenticate(d, username, password) ==
  LET found == UserIdsWhere(d, "username", username)
  IN IF found # {}
        /\ bcryptCompare(password, d.users[CHOOSE id \in found : TRUE].password)
     THEN Returned(d, ProfileWithUsername(d, CHOOSE id \in found : TRUE))
     ELSE Thrown(d, UnauthorizedError("Invalid username/password"))

authenticateWithGoogle(d, googleId) ==
  LET found == UserIdsWhere(d, "google_id", googleId)
  IN IF found # {}
     THEN Returned(d, ProfileWithUsername(d, CHOOSE id \in found : TRUE))
     ELSE Thrown(d, UnauthorizedError("Invalid Google ID"))

\* INSERT INTO users ...: user_id comes from users_user_id_seq
InsertUser(d, row) ==
  LET id == d.users_user_id_seq + 1
  IN [d EXCEPT !.users_user_id_seq = id, !.users = PutRow(@, id, row)]

\* register that skips the look-up of the username
register_nocheck(d, data) ==
  LET d2 == InsertUser(d, [username |-> data.username,
                           password |-> bcryptHash(data.password),
                           first_name |-> data.firstName,
                           last_name |-> data.lastName,
                           email |-> data.email,
                           google_id |-> NULL])
  IN Returned(d2, ProfileWithUsername(d2, d2.users_user_id_seq))

register(d, data) ==
  IF UserIdsWhere(d, "username", data.username) # {}
  THEN Thrown(d, BadRequestError("Duplicate username"))
  ELSE LET d2 == InsertUser(d, [username |-> data.username,
                                password |-> bcryptHash(data.password),
                                first_name |-> data.firstName,
                                last_name |-> data.lastName,
                                email |-> data.email,
                                google_id |-> NULL])
       IN Returned(d2, ProfileWithUsername(d2, d2.users_user_id_seq))

googleRegister(d, data) ==
  IF UserIdsWhere(d, "google_id", data.googleId) # {}
  THEN Thrown(d, BadRequestError("Duplicate registration"))
  ELSE LET d2 == InsertUser(d, [username |-> NULL,
                                password |-> NULL,
                                first_name |-> data.firstName,
                                last_name |-> data.lastName,
                                email |-> data.email,
                                google_id |-> data.googleId])
       IN Returned(d2, ProfileWithGoogleId(d2, d2.users_user_id_seq))

get(d, user_id) ==
  IF user_id \in DOMAIN d.users
  THEN Returned(d, Profile(d, user_id))
  ELSE Thrown(d, NotFoundError("No user"))

\* remove without the ON DELETE CASCADE of the two foreign keys
remove_nocascade(d, user_id) ==
  IF user_id \in DOMAIN d.users
  THEN Returned([d EXCEPT !.users = DeleteRows(@, {user_id})], Undefined)
  ELSE Thrown(d, NotFoundError("No user"))

\* DELETE FROM users WHERE user_id = $1, with the ON DELETE CASCADE of
\* fk_user and fk_user_shopping_list
remove(d, user_id) ==
  IF user_id \in DOMAIN d.users
  THEN Returned([d EXCEPT
                   !.users = DeleteRows(@, {user_id}),
                   !.recipes_users =
                     [r \in {x \in DOMAIN @ : x[1] # user_id} |-> @[r]],
                   !.shopping_list = DeleteRows(@, {user_id})],
                Undefined)
  ELSE Thrown(d, NotFoundError("No user"))

(***************************************************************************)
(* helpers/sql.js and User.update.  A sparse field map is the sequence of  *)
(* its [k, v] entries in the order the keys were supplied.                 *)
(***************************************************************************)
Keys(data) == [i \in 1..Len(data) |-> data[i].k]
Values(data) == [i \in 1..Len(data) |-> data[i].v]

HasKey(data, key) == \E i \in 1..Len(data) : data[i].k = key
ValueOf(data, key) == data[CHOOSE i \in 1..Len(data) : data[i].k = key].v

\* the table handed to sqlForPartialUpdate by User.update
UserJsToSql == [firstName |-> "first_name", lastName |-> "last_name"]

\* the Clause Builder accepting an empty field map
sqlForPartialUpdate_lenient(data, jsToSql) ==
  [err |-> NoError,
   setCols |-> [i \in 1..Len(data) |->
                  [column |-> IF data[i].k \in DOMAIN jsToSql
                              THEN jsToSql[data[i].k] ELSE data[i].k,
                   placeholder |-> i]],
   values |-> Values(data)]

\* the Clause Builder ignoring the remap table
sqlForPartialUpdate_verbatim(data, jsToSql) ==
  IF Len(data) = 0
  THEN [err |-> BadRequestError("No data"), setCols |-> <<>>, values |-> <<>>]
  ELSE [err |-> NoError,
        setCols |-> [i \in 1..Len(data) |->
                       [column |-> data[i].k, placeholder |-> i]],
        values |-> Values(data)]

\* sqlForPartialUpdate(dataToUpdate, jsToSql): one "<column> = $<idx>"
\* fragment per key, in key order, and the values in the same order
sqlForPartialUpdate(data, jsToSql) ==
  IF Len(data) = 0
  THEN [err |-> BadRequestError("No data"), setCols |-> <<>>, values |-> <<>>]
  ELSE [err |-> NoError,
        setCols |-> [i \in 1..Len(data) |->
                       [column |-> IF data[i].k \in DOMAIN jsToSql
                                   THEN jsToSql[data[i].k] ELSE data[i].k,
                        placeholder |-> i]],
        values |-> Values(data)]

UserColumns ==
  {"username", "password", "first_name", "last_name", "email", "google_id"}

\* the SET clause applying its first fragment only
ApplySet_first(row, setCols, params) ==
  IF setCols = <<>> THEN row
  ELSE [row EXCEPT ![Head(setCols).column] = params[Head(setCols).placeholder]]

\* a row after SET setCols[1], ..., setCols[n] with the bound parameters
RECURSIVE ApplySet(_, _, _)
ApplySet(row, setCols, params) ==
  IF setCols = <<>> THEN row
  ELSE ApplySet([row EXCEPT ![Head(setCols).column] = params[Head(setCols).placeholder]],
                Tail(setCols), params)

\* update that stores the password as given
HashPassword_plain(data) == data

\* if (data.password) data.password = await bcrypt.hash(data.password, ...)
HashPassword(data) ==
  [i \in 1..Len(data) |->
     IF data[i].k = "password" /\ data[i].v # ""
     THEN [k |-> "password", v |-> bcryptHash(data[i].v)]
     ELSE data[i]]

\* the statement update sends: its SET fragments, the index of the user_id
\* placeholder and the bound parameters [...values, user_id]
UpdateStatement(user_id, data) ==
  LET sql == sqlForPartialUpdate(HashPassword(data), UserJsToSql)
  IN [err |-> sql.err,
      setCols |-> sql.setCols,
      useridVarIdx |-> Len(sql.values) + 1,
      params |-> sql.values \o <<user_id>>]

update(d, user_id, data) ==
  LET sql == UpdateStatement(user_id, data)
      useridVarIdx == sql.useridVarIdx
      params == sql.params
      columns == {sql.setCols[i].column : i \in 1..Len(sql.setCols)}
  IN IF sql.err # NoError THEN Thrown(d, sql.err)
     ELSE IF ~(columns \subseteq UserColumns)
     THEN Thrown(d, StoreError("column does not exist"))
     ELSE IF Cardinality(columns) # Len(sql.setCols)
     THEN Thrown(d, StoreError("multiple assignments to same column"))
     ELSE IF params[useridVarIdx] \notin DOMAIN d.users
     THEN Thrown(d, NotFoundError("No user"))
     ELSE LET d2 == [d EXCEPT !.users[params[useridVarIdx]] =
                                ApplySet(@, sql.setCols, params)]
          IN Returned(d2, Profile(d2, params[useridVarIdx]))

(***************************************************************************)
(* models/user.js: class RecipesUsers.  A row is <<user_id, recipe_id>>.   *)
(***************************************************************************)
AssocCount(d, user_id, recipe_id) ==
  IF <<user_id, recipe_id>> \in DOMAIN d.recipes_users
  THEN d.recipes_users[<<user_id, recipe_id>>] ELSE 0

\* INSERT INTO recipes_users (recipe_id, user_id) VALUES ($1, $2)
InsertAssoc(d, recipe_id, user_id) ==
  IF user_id \notin DOMAIN d.users
  THEN Thrown(d, StoreError("violates foreign key constraint fk_user"))
  ELSE IF recipe_id \notin DOMAIN d.recipes
  THEN Thrown(d, StoreError("violates foreign key constraint fk_recipe"))
  ELSE Returned([d EXCEPT !.recipes_users = @ (+) SetToBag({<<user_id, recipe_id>>})],
                [recipe_id |-> recipe_id, user_id |-> Int4ToJs(user_id)])

addToUser(d, recipe_id, user_id) ==
  IF AssocCount(d, user_id, recipe_id) > 0
  THEN Returned(d, [column1 |-> 1])
  ELSE InsertAssoc(d, recipe_id, user_id)

removeFromUser(d, user_id, recipe_id) ==
  IF AssocCount(d, user_id, recipe_id) > 0
  THEN Returned([d EXCEPT !.recipes_users =
                   [r \in (DOMAIN @) \ {<<user_id, recipe_id>>} |-> @[r]]],
                Undefined)
  ELSE Thrown(d, NotFoundError("No recipe-user relationship"))

\* text order of the characters used in recipe ids
CharOrder ==
  <<"\"", "0", "1", "2", "3", "4", "5", "6", "7", "8", "9", "N", "\\", "a", "r">>

CharCode(c) == CHOOSE i \in 1..Len(CharOrder) : CharOrder[i] = c

RECURSIVE TextLess(_, _)
TextLess(a, b) ==
  IF b = <<>> THEN FALSE
  ELSE IF a = <<>> THEN TRUE
  ELSE IF Head(a) # Head(b) THEN CharCode(Head(a)) < CharCode(Head(b))
  ELSE TextLess(Tail(a), Tail(b))

\* the texts of S in ascending order
RECURSIVE SortTexts(_)
SortTexts(S) ==
  IF S = {} THEN <<>>
  ELSE LET least == CHOOSE x \in S : \A y \in S \ {x} : TextLess(x, y)
       IN <<least>> \o SortTexts(S \ {least})

Repeat(x, n) == [i \in 1..n |-> x]

RECURSIVE Flatten(_)
Flatten(ss) == IF ss = <<>> THEN <<>> ELSE Head(ss) \o Flatten(Tail(ss))

\* SELECT ... FROM recipes_users ru JOIN recipes r ... WHERE ru.user_id = $1
\* ORDER BY r.recipe_id, one entry per recipes_users row
findAll(d, user_id) ==
  LET ids == SortTexts({k \in DOMAIN d.recipes : AssocCount(d, user_id, k) > 0})
  IN Returned(d, Flatten([i \in 1..Len(ids) |->
                   Repeat([id |-> ids[i],
                           label |-> d.recipes[ids[i]].label,
                           image |-> d.recipes[ids[i]].image,
                           ingredients |-> d.recipes[ids[i]].ingredients,
                           url |-> d.recipes[ids[i]].url],
                          AssocCount(d, user_id, ids[i]))]))

(***************************************************************************)
(* models/recipe.js.  recipe_id, label, image and url are sequences of     *)
(* characters; an ingredient is an opaque string without a double quote.   *)
(***************************************************************************)
\* str.replace(/"/g, '\\"')
RECURSIVE sanitize(_)
sanitize(str) ==
  IF str = <<>> THEN <<>>
  ELSE (IF Head(str) = "\"" THEN <<"\\", "\"">> ELSE <<Head(str)>>)
       \o sanitize(Tail(str))

\* JSON.stringify of an array of strings, as a sequence of characters in
\* which each ingredient stands for its own text
RECURSIVE StringifyItems(_)
StringifyItems(a) ==
  IF a = <<>> THEN <<>>
  ELSE <<"\"", Head(a), "\"">>
       \o (IF Len(a) > 1 THEN <<",">> ELSE <<>>)
       \o StringifyItems(Tail(a))

JSONStringify(a) == <<"[">> \o StringifyItems(a) \o <<"]">>

RecipeRow(d, recipe_id) ==
  [label |-> d.recipes[recipe_id].label,
   image |-> d.recipes[recipe_id].image,
   ingredients |-> d.recipes[recipe_id].ingredients,
   url |-> d.recipes[recipe_id].url]

createRecipe(d, data) ==
  LET sanitizedFields == [recipe_id |-> sanitize(data.recipe_id),
                          label |-> sanitize(data.label),
                          image |-> sanitize(data.image),
                          url |-> sanitize(data.url)]
      sanitizedIngredients == sanitize(JSONStringify(data.ingredients))
  IN IF data.recipe_id \in DOMAIN d.recipes
     THEN Returned(d, <<sanitizedFields.label, sanitizedFields.image,
                        sanitizedIngredients, sanitizedFields.url>>)
     ELSE IF sanitizedFields.recipe_id \in DOMAIN d.recipes
     THEN Thrown(d, StoreError("duplicate key value violates recipes_pkey"))
     ELSE LET d2 == [d EXCEPT !.recipes =
                       PutRow(@, sanitizedFields.recipe_id,
                              [label |-> sanitizedFields.label,
                               image |-> sanitizedFields.image,
                               ingredients |-> data.ingredients,
                               url |-> sanitizedFields.url])]
          IN Returned(d2, RecipeRow(d2, sanitizedFields.recipe_id))

getRecipe(d, recipe_id) ==
  IF recipe_id \in DOMAIN d.recipes
  THEN Returned(d, RecipeRow(d, recipe_id))
  ELSE Thrown(d, NotFoundError("No recipe"))

(***************************************************************************)
(* app.js and the routers.  A route gives, for the store and a request,    *)
(* the store afterwards, the response and the tokens it hands out.         *)
(***************************************************************************)
Sent(d, status, body) ==
  [db |-> d, status |-> status, body |-> body, tokens |-> {}]

\* the generic error handler of app.js: status = err.status || 500
Failed(d, err) ==
  Sent(d, err.status, [error |-> [message |-> err.message, status |-> err.status]])

\* res.json(...) of a data-access result, or next(err) when it threw
Json(r, status, body) ==
  IF r.err # NoError THEN Failed(r.db, r.err) ELSE Sent(r.db, status, body)

\* router.<method>(path, ensureCorrectUser, handler) behind
\* app.use(authenticateJWT)
Guarded(d, request, handled) ==
  LET gate == ensureCorrectUser(authenticateJWT(request.headers).locals,
                                request.params)
  IN IF gate # NoError THEN Failed(d, gate) ELSE handled

\* jsonschema.validate(req.body, schema).valid: the verdict travels with
\* the body
jsonschemaValid(body) == body.valid

\* a text parameter bound to an integer column that is no integer
InvalidInt4(d) == Thrown(d, StoreError("invalid input syntax for type integer"))

(* routes/auth.js *)
TokenSent(r, status, now) ==
  IF r.err # NoError THEN Failed(r.db, r.err)
  ELSE [db |-> r.db, status |-> status,
        body |-> [token |-> createToken(r.ret, now)],
        tokens |-> {createToken(r.ret, now)}]

postAuthToken(d, request, now) ==
  IF ~jsonschemaValid(request.body)
  THEN Failed(d, BadRequestError("invalid payload"))
  ELSE IF request.body.googleId # Undefined /\ request.body.googleId # ""
  THEN TokenSent(authenticateWithGoogle(d, request.body.googleId), 200, now)
  ELSE TokenSent(authenticate(d, request.body.username, request.body.password),
                 200, now)

postAuthRegister(d, request, now) ==
  IF ~jsonschemaValid(request.body)
  THEN Failed(d, BadRequestError("invalid payload"))
  ELSE TokenSent(register(d, request.body), 201, now)

postAuthGoogleRegister(d, request, now) ==
  IF ~jsonschemaValid(request.body)
  THEN Failed(d, BadRequestError("invalid payload"))
  ELSE TokenSent(googleRegister(d, request.body), 201, now)

(* routes/users.js *)
getUsersHandler(d, request) ==
  LET id == Int4In(request.params.user_id)
      r == IF id.ok THEN get(d, id.n) ELSE InvalidInt4(d)
  IN Json(r, 200, [user |-> r.ret])

getUsers(d, request) == Guarded(d, request, getUsersHandler(d, request))

patchUsersHandler(d, request) ==
  IF ~jsonschemaValid(request.body)
  THEN Failed(d, BadRequestError("invalid payload"))
  ELSE LET id == Int4In(request.params.user_id)
           r == IF id.ok THEN update(d, id.n, request.body.data) ELSE InvalidInt4(d)
       IN Json(r, 200, [user |-> r.ret])

patchUsers(d, request) == Guarded(d, request, patchUsersHandler(d, request))

deleteUsersHandler(d, request) ==
  LET id == Int4In(request.params.user_id)
      r == IF id.ok THEN remove(d, id.n) ELSE InvalidInt4(d)
  IN Json(r, 200, [deleted |-> request.params.user_id])

deleteUsers(d, request) == Guarded(d, request, deleteUsersHandler(d, request))

(* routes/shopping.js *)
getShoppingHandler(d, request) ==
  LET userId == parseInt(request.params.user_id)
      r == getUserShoppingList(d, userId.n)
  IN IF isNaN(userId) THEN Failed(d, BadRequestError("Invalid user ID."))
     ELSE IF r.err = NoError /\ ~r.ret.isArray
     THEN Sent(d, 500, [error |-> "Failed to retrieve shopping list."])
     ELSE Json(r, 200, [list |-> r.ret])

getShopping(d, request) == Guarded(d, request, getShoppingHandler(d, request))

postShoppingHandler(d, request) ==
  LET userId == parseInt(request.params.user_id)
      r == addRecipeIngredients(d, userId.n, request.body.ingredients)
  IN IF isNaN(userId) THEN Failed(d, BadRequestError("Invalid user ID."))
     ELSE IF ~jsonschemaValid(request.body)
     THEN Failed(d, BadRequestError("invalid payload"))
     ELSE Json(r, 200, [list |-> r.ret])

postShopping(d, request) == Guarded(d, request, postShoppingHandler(d, request))

patchShoppingHandler(d, request) ==
  LET userId == parseInt(request.params.user_id)
      r == updateList(d, userId.n, request.body.ingredients)
  IN IF isNaN(userId) THEN Failed(d, BadRequestError("Invalid user ID."))
     ELSE IF ~jsonschemaValid(request.body)
     THEN Failed(d, BadRequestError("invalid payload"))
     ELSE Json(r, 200, [list |-> r.ret])

\* PATCH /shopping/:user_id registered without ensureCorrectUser
patchShopping_unguarded(d, request) == patchShoppingHandler(d, request)

patchShopping(d, request) ==
  Guarded(d, request, patchShoppingHandler(d, request))

(* routes/recipes.js *)
getRecipesHandler(d, request) ==
  LET userId == parseInt(request.params.user_id)
      id == Int4In(request.params.user_id)
      r == IF id.ok THEN findAll(d, id.n) ELSE InvalidInt4(d)
  IN IF isNaN(userId) THEN Failed(d, BadRequestError("Invalid user ID."))
     ELSE Json(r, 200, [recipes |-> r.ret])

getRecipes(d, request) == Guarded(d, request, getRecipesHandler(d, request))

getRecipeByIdHandler(d, request) ==
  LET userId == parseInt(request.params.user_id)
      r == getRecipe(d, request.params.recipe_id)
  IN IF isNaN(userId) THEN Failed(d, BadRequestError("Invalid user ID."))
     ELSE Json(r, 200, [recipe |-> r.ret])

getRecipeById(d, request) ==
  Guarded(d, request, getRecipeByIdHandler(d, request))

\* createRecipe and addToUser are both started and their statements go to
\* the one Client in turn: the two look-ups, then the two inserts.  Both
\* run to their end whichever fails; Promise.all reports the first failure.
postRecipeHandler(d, request) ==
  LET userId == parseInt(request.params.user_id)
      created == createRecipe(d, request.body)
      added == addToUser(created.db, request.params.recipe_id, userId.n)
      first == IF created.err # NoError THEN created.err ELSE added.err
  IN IF isNaN(userId) THEN Failed(d, BadRequestError("Invalid user ID."))
     ELSE IF first # NoError THEN Failed(added.db, first)
     ELSE Sent(added.db, 200, [recipe |-> created.ret])

postRecipe(d, request) == Guarded(d, request, postRecipeHandler(d, request))

deleteRecipeHandler(d, request) ==
  LET userId == parseInt(request.params.user_id)
      r == removeFromUser(d, userId.n, request.params.recipe_id)
  IN IF isNaN(userId) THEN Failed(d, BadRequestError("Invalid user ID."))
     ELSE Json(r, 200, [deleted |-> request.params.recipe_id])

deleteRecipe(d, request) == Guarded(d, request, deleteRecipeHandler(d, request))

(***************************************************************************)
(* The middleware on its own: one request taken through authenticateJWT    *)
(* and then ensureCorrectUser, for every header and path of GateReqs.      *)
(***************************************************************************)
GateUserIds ==
  {Str(<<"0">>), Str(<<"1">>), Str(<<"N", "a", "N">>), Num(0), Num(1), Num(12)}

GatePaths ==
  {<<"0">>, <<"1">>, <<"1", "2">>, <<"0", "1">>, <<"N", "a", "N">>, <<"1", "a">>}

GateTokens ==
  {jwtSign([firstName |-> "test", user_id |-> u], k, now) :
     u \in GateUserIds, k \in {SECRET_KEY, "wrong"}, now \in Times}

GateReqs ==
  {[headers |-> [authorization |-> a], params |-> [user_id |-> p]] :
     a \in {NoAuthorization} \cup {Bearer(t) : t \in GateTokens},
     p \in GatePaths}

NoResponse == [status |-> 0, body |-> <<>>]

GateInit ==
  /\ db = EmptyDb
  /\ issued = {}
  /\ req \in GateReqs
  /\ res = NoResponse
  /\ locals = NoLocals
  /\ nextErr = NotCalled
  /\ stage = "received"

RunAuthenticateJWT ==
  /\ stage = "received"
  /\ locals' = authenticateJWT(req.headers).locals
  /\ nextErr' = authenticateJWT(req.headers).next
  /\ stage' = "authenticated"
  /\ UNCHANGED <<db, issued, req, res>>

RunEnsureCorrectUser ==
  /\ stage = "authenticated"
  /\ nextErr = NoError
  /\ nextErr' = ensureCorrectUser(locals, req.params)
  /\ stage' = "gated"
  /\ UNCHANGED <<db, issued, req, res, locals>>

GateNext == RunAuthenticateJWT \/ RunEnsureCorrectUser

SpecGate == GateInit /\ [][GateNext]_vars

\* C1: require-owner passes exactly when the identity context is set and its
\* user_id, written as a string, is the path's user_id; an empty context is
\* AuthenticationRequired and a differing id is OwnershipMismatch, both 401.
C1_RequireOwner ==
  stage = "gated" =>
    LET set == "user" \in DOMAIN locals
        path == req.params.user_id
        uid == locals.user.user_id
        same == \/ uid.t = "string" /\ uid.s = path
                \/ uid.t = "number" /\ parseInt(path) = [nan |-> FALSE, n |-> uid.n]
                                    /\ Len(path) = Len(NumToString(uid.n))
    IN /\ (nextErr = NoError) <=> (set /\ same)
       /\ ~set => nextErr = UnauthorizedError("AuthenticationRequired")
       /\ (set /\ ~same) => nextErr = UnauthorizedError("OwnershipMismatch")
       /\ nextErr # NoError => nextErr.status = 401
       /\ (set /\ uid = Str(<<"0">>) /\ path = <<"0">>) => nextErr = NoError
       /\ (set /\ uid = Str(<<"0">>) /\ path = <<"N", "a", "N">>)
            => nextErr = UnauthorizedError("OwnershipMismatch")
       /\ (set /\ uid = Num(1) /\ path = <<"1">>) => nextErr = NoError

C1_Witness ==
  /\ stage = "gated"
  /\ "user" \in DOMAIN locals
  /\ locals.user.user_id = Num(1)
  /\ req.params.user_id = <<"1">>
  /\ nextErr = NoError

\* C3: authenticateJWT always calls next() without an error; the identity
\* context is the token's claims when a Bearer token verifies and is left
\* empty when there is no header or the token does not verify.
C3_VerifierNeverRejects ==
  stage = "authenticated" =>
    /\ nextErr = NoError
    /\ ~req.headers.authorization.present => locals = NoLocals
    /\ (req.headers.authorization.present
        /\ req.headers.authorization.token.key # SECRET_KEY) => locals = NoLocals
    /\ (req.headers.authorization.present
        /\ req.headers.authorization.token.key = SECRET_KEY)
         => /\ DOMAIN locals = {"user"}
            /\ locals.user = req.headers.authorization.token.payload

C3_Witness ==
  /\ stage = "authenticated"
  /\ req.headers.authorization.present
  /\ req.headers.authorization.token.key = "wrong"
  /\ locals = NoLocals
  /\ nextErr = NoError


(***************************************************************************)
(* The data-access classes called directly, as the model tests do: any     *)
(* sequence of User.register, User.remove and the three ShoppingList        *)
(* methods, from the empty store.                                          *)
(***************************************************************************)
Ingredients == {"i1", "i2"}

\* the arrays passed as ingredients: empty, one element, two different
\* elements in either order, the same element twice
IngredientArgs ==
  {<<>>} \cup {<<x>> : x \in Ingredients}
         \cup {<<x, y>> : x \in Ingredients, y \in Ingredients}

\* ids a caller may pass: every id the sequence can hand out and one more
CallUserIds == 1..(MaxListUsers + 1)

RegisterData ==
  {[username |-> u, password |-> "password1", firstName |-> "U1F",
    lastName |-> "U1L", email |-> "user1@user.com"] : u \in {"u1", "u3"}}

NoCall == [op |-> "none"]
NoResult == [err |-> NoError, ret |-> Undefined]
Result(r) == [err |-> r.err, ret |-> r.ret]

ListFits(d) ==
  \A u \in DOMAIN d.shopping_list : Len(d.shopping_list[u]) <= MaxListLen

ListInit ==
  /\ db = EmptyDb
  /\ issued = {}
  /\ req = NoCall
  /\ res = NoResult
  /\ locals = NoLocals
  /\ nextErr = NotCalled
  /\ stage = "call"

Call(call, r) ==
  /\ req' = call
  /\ res' = Result(r)
  /\ db' = r.db
  /\ UNCHANGED <<issued, locals, nextErr, stage>>

CallRegister ==
  \E data \in RegisterData :
    /\ db.users_user_id_seq < MaxListUsers
    /\ Call([op |-> "register", data |-> data], register(db, data))

CallRemove ==
  \E u \in CallUserIds :
    Call([op |-> "remove", user_id |-> u], remove(db, u))

CallGetUserShoppingList ==
  \E u \in CallUserIds :
    Call([op |-> "getUserShoppingList", user_id |-> u],
         getUserShoppingList(db, u))

CallAddRecipeIngredients ==
  \E u \in CallUserIds, a \in IngredientArgs :
    /\ ListFits(addRecipeIngredients(db, u, a).db)
    /\ Call([op |-> "addRecipeIngredients", user_id |-> u, ingredients |-> a],
            addRecipeIngredients(db, u, a))

CallUpdateList ==
  \E u \in CallUserIds, a \in IngredientArgs :
    Call([op |-> "updateList", user_id |-> u, ingredients |-> a],
         updateList(db, u, a))

ListNext ==
  \/ CallRegister
  \/ CallRemove
  \/ CallGetUserShoppingList
  \/ CallAddRecipeIngredients
  \/ CallUpdateList

SpecList == ListInit /\ [][ListNext]_vars

\* the elements of N that are not in L, in the order of N
NotIn(N, L) == SelectSeq(N, LAMBDA x : x \notin Elems(L))

\* C5: a mergeAppend (addRecipeIngredients) for a user whose list holds L
\* stores L followed by exactly the elements of N that are not in L.
C5_MergeAppendsOnlyNew ==
  [][(/\ req'.op = "addRecipeIngredients"
      /\ req'.user_id \in DOMAIN db.users
      /\ req'.user_id \in DOMAIN db.shopping_list)
     => db'.shopping_list[req'.user_id] =
          db.shopping_list[req'.user_id]
            \o NotIn(req'.ingredients, db.shopping_list[req'.user_id])]_vars

\* C6: a mergeAppend that repeats the successful mergeAppend just performed
\* (same user, same ingredients) leaves the store as the first one left it.
C6_MergeIdempotent ==
  [][(/\ req.op = "addRecipeIngredients"
      /\ res.err = NoError
      /\ req'.op = "addRecipeIngredients"
      /\ req'.user_id = req.user_id
      /\ req'.ingredients = req.ingredients)
     => /\ db' = db
        /\ res' = res]_vars

C6_Witness ==
  /\ req.op = "addRecipeIngredients"
  /\ res.err = NoError
  /\ \E k \in 1..MaxListLen :
       /\ Len(db.shopping_list[req.user_id]) = k + Len(req.ingredients)
       /\ SubSeq(db.shopping_list[req.user_id], k + 1, k + Len(req.ingredients))
            = req.ingredients
       /\ ~ContainedBy(req.ingredients, SubSeq(db.shopping_list[req.user_id], 1, k))

\* C7: replaceList (updateList) for an existing user succeeds whatever the
\* list was before, stores exactly the given array, and the getList that
\* follows returns that array.
C7_ReplaceOverwrites ==
  [][/\ (req'.op = "updateList" /\ req'.user_id \in DOMAIN db.users)
          => /\ res'.err = NoError
             /\ db'.shopping_list[req'.user_id] = req'.ingredients
     /\ (/\ req.op = "updateList"
         /\ res.err = NoError
         /\ req'.op = "getUserShoppingList"
         /\ req'.user_id = req.user_id)
          => /\ res'.err = NoError
             /\ res'.ret = ArrayOf(req.ingredients)]_vars

C7_Witness ==
  /\ req.op = "updateList"
  /\ res.err = NoError
  /\ req.ingredients = <<"i1", "i1">>
  /\ db.shopping_list[req.user_id] = <<"i1", "i1">>

\* C8: mergeAppend for a user id with no users row throws NotFoundError
\* (404) and leaves every table as it was.
C8_MergeUnknownUser ==
  [][(/\ req'.op = "addRecipeIngredients"
      /\ req'.user_id \notin DOMAIN db.users)
     => /\ res'.err = NotFoundError("No user found with ID")
        /\ res'.err.status = 404
        /\ db' = db]_vars

C8_Witness ==
  /\ req.op = "addRecipeIngredients"
  /\ req.user_id \notin DOMAIN db.users
  /\ req.ingredients # <<>>
  /\ res.err.status = 404
  /\ req.user_id \notin DOMAIN db.shopping_list

\* C9: getList (getUserShoppingList) never throws: it returns the stored
\* array when the user has a shopping_list row and the empty array when
\* not, and it leaves the store unchanged.
C9_GetListTotal ==
  [][req'.op = "getUserShoppingList"
     => /\ res'.err = NoError
        /\ res'.ret = IF req'.user_id \in DOMAIN db.shopping_list
                      THEN ArrayOf(db.shopping_list[req'.user_id])
                      ELSE ArrayOf(<<>>)
        /\ db' = db]_vars

C9_Witness ==
  /\ req.op = "getUserShoppingList"
  /\ req.user_id \in DOMAIN db.users
  /\ req.user_id \notin DOMAIN db.shopping_list
  /\ res = [err |-> NoError, ret |-> ArrayOf(<<>>)]


(***************************************************************************)
(* The server: requests arrive one after the other at the routes of        *)
(* app.js, from the empty store.  A request carries no Authorization       *)
(* header or a token one of the /auth routes has handed out.               *)
(***************************************************************************)
Authorizations == {NoAuthorization} \cup {Bearer(t) : t \in issued}

UserPaths == {NumToString(u) : u \in 1..MaxUsers}

RecipeIds == {<<"r", "1">>}

RegisterBodies ==
  {[valid |-> v, username |-> "u1", password |-> "password1", firstName |-> "U1F",
    lastName |-> "U1L", email |-> "user1@user.com"] : v \in BOOLEAN}

GoogleBodies ==
  {[valid |-> v, firstName |-> "U2F", lastName |-> "U2L",
    email |-> "user2@user.com", googleId |-> "123abc"] : v \in BOOLEAN}

TokenBodies ==
  {[valid |-> TRUE, username |-> "u1", password |-> pw, googleId |-> Undefined] :
     pw \in {"password1", "wrong"}}
  \cup {[valid |-> v, username |-> Undefined, password |-> Undefined,
         googleId |-> "123abc"] : v \in BOOLEAN}

UserUpdateBodies ==
  {[valid |-> TRUE, data |-> <<[k |-> "lastName", v |-> "New"]>>],
   [valid |-> TRUE, data |-> <<>>],
   [valid |-> FALSE, data |-> <<[k |-> "firstName", v |-> "42"]>>]}

ShoppingBodies ==
  {[valid |-> TRUE, ingredients |-> <<"i1", "i2">>],
   [valid |-> FALSE, ingredients |-> <<>>]}

RecipeBodies ==
  {[recipe_id |-> id, label |-> <<"r", "1">>, image |-> <<"a">>,
    ingredients |-> <<"i1", "i2">>, url |-> <<"a">>] : id \in RecipeIds}

NoRequest == [route |-> "none"]

Init ==
  /\ db = EmptyDb
  /\ issued = {}
  /\ req = NoRequest
  /\ res = NoResponse
  /\ locals = NoLocals
  /\ nextErr = NotCalled
  /\ stage = "listening"

Respond(request, out) ==
  /\ ListFits(out.db)
  /\ req' = request
  /\ locals' = authenticateJWT(request.headers).locals
  /\ res' = [status |-> out.status, body |-> out.body]
  /\ db' = out.db
  /\ issued' = issued \cup out.tokens
  /\ UNCHANGED <<nextErr, stage>>

Request(route, a, params, body) ==
  [route |-> route, headers |-> [authorization |-> a], params |-> params,
   body |-> body]

NoParams == <<>>
NoBody == <<>>

PostAuthToken ==
  \E a \in Authorizations, body \in TokenBodies, now \in Times :
    LET request == Request("POST /auth/token", a, NoParams, body)
    IN Respond(request, postAuthToken(db, request, now))

PostAuthRegister ==
  \E a \in Authorizations, body \in RegisterBodies, now \in Times :
    LET request == Request("POST /auth/register", a, NoParams, body)
    IN /\ db.users_user_id_seq < MaxUsers
       /\ Respond(request, postAuthRegister(db, request, now))

PostAuthGoogleRegister ==
  \E a \in Authorizations, body \in GoogleBodies, now \in Times :
    LET request == Request("POST /auth/googleregister", a, NoParams, body)
    IN /\ db.users_user_id_seq < MaxUsers
       /\ Respond(request, postAuthGoogleRegister(db, request, now))

GetUsers ==
  \E a \in Authorizations, p \in UserPaths :
    LET request == Request("GET /users/:user_id", a, [user_id |-> p], NoBody)
    IN Respond(request, getUsers(db, request))

PatchUsers ==
  \E a \in Authorizations, p \in UserPaths, body \in UserUpdateBodies :
    LET request == Request("PATCH /users/:user_id", a, [user_id |-> p], body)
    IN Respond(request, patchUsers(db, request))

DeleteUsers ==
  \E a \in Authorizations, p \in UserPaths :
    LET request == Request("DELETE /users/:user_id", a, [user_id |-> p], NoBody)
    IN Respond(request, deleteUsers(db, request))

GetShopping ==
  \E a \in Authorizations, p \in UserPaths :
    LET request == Request("GET /shopping/:user_id", a, [user_id |-> p], NoBody)
    IN Respond(request, getShopping(db, request))

PostShopping ==
  \E a \in Authorizations, p \in UserPaths, body \in ShoppingBodies :
    LET request == Request("POST /shopping/:user_id", a, [user_id |-> p], body)
    IN Respond(request, postShopping(db, request))

PatchShopping ==
  \E a \in Authorizations, p \in UserPaths, body \in ShoppingBodies :
    LET request == Request("PATCH /shopping/:user_id", a, [user_id |-> p], body)
    IN Respond(request, patchShopping(db, request))

GetRecipes ==
  \E a \in Authorizations, p \in UserPaths :
    LET request == Request("GET /recipes/:user_id", a, [user_id |-> p], NoBody)
    IN Respond(request, getRecipes(db, request))

GetRecipeById ==
  \E a \in Authorizations, p \in UserPaths, k \in RecipeIds :
    LET request == Request("GET /recipes/:user_id/:recipe_id", a,
                           [user_id |-> p, recipe_id |-> k], NoBody)
    IN Respond(request, getRecipeById(db, request))

PostRecipe ==
  \E a \in Authorizations, p \in UserPaths, k \in RecipeIds, body \in RecipeBodies :
    LET request == Request("POST /recipes/:user_id/:recipe_id", a,
                           [user_id |-> p, recipe_id |-> k], body)
    IN Respond(request, postRecipe(db, request))

DeleteRecipe ==
  \E a \in Authorizations, p \in UserPaths, k \in RecipeIds :
    LET request == Request("DELETE /recipes/:user_id/:recipe_id", a,
                           [user_id |-> p, recipe_id |-> k], NoBody)
    IN Respond(request, deleteRecipe(db, request))

\* PATCH /users/:user_id by clients that change their first name
PatchUsersFirstName ==
  \E a \in Authorizations, p \in UserPaths :
    LET request == Request("PATCH /users/:user_id", a, [user_id |-> p],
                           [valid |-> TRUE,
                            data |-> <<[k |-> "firstName", v |-> "New"]>>])
    IN Respond(request, patchUsers(db, request))

\* the /auth routes together with the routes that change or delete the
\* rows they read
AuthNext ==
  \/ PostAuthToken
  \/ PostAuthRegister
  \/ PostAuthGoogleRegister
  \/ PatchUsersFirstName
  \/ DeleteUsers

SpecAuth == Init /\ [][AuthNext]_vars

Next ==
  \/ PostAuthToken
  \/ PostAuthRegister
  \/ PostAuthGoogleRegister
  \/ GetUsers
  \/ PatchUsers
  \/ DeleteUsers
  \/ GetShopping
  \/ PostShopping
  \/ PatchShopping
  \/ GetRecipes
  \/ GetRecipeById
  \/ PostRecipe
  \/ DeleteRecipe

Spec == Init /\ [][Next]_vars


OwnerOnlyRoutes ==
  {"GET /users/:user_id", "PATCH /users/:user_id", "DELETE /users/:user_id",
   "GET /shopping/:user_id", "POST /shopping/:user_id", "PATCH /shopping/:user_id",
   "GET /recipes/:user_id", "GET /recipes/:user_id/:recipe_id",
   "POST /recipes/:user_id/:recipe_id", "DELETE /recipes/:user_id/:recipe_id"}

\* the request carries the token handed out to user A against the path of
\* another user B
ForeignToken(request) ==
  /\ request.headers.authorization.present
  /\ request.headers.authorization.token \in issued
  /\ \E A \in 1..MaxUsers, B \in 1..MaxUsers :
       /\ A # B
       /\ request.headers.authorization.token.payload.user_id = Int4ToJs(A)
       /\ request.params.user_id = NumToString(B)

\* C2: on every owner-only route a request with another user's token, or
\* with none, is answered 401 and no table changes.
C2_ForeignOrAnonRejected ==
  [][(/\ req'.route \in OwnerOnlyRoutes
      /\ (ForeignToken(req') \/ ~req'.headers.authorization.present))
     => /\ res'.status = 401
        /\ db' = db
        /\ issued' = issued]_vars

C2_Witness ==
  /\ req.route = "PATCH /shopping/:user_id"
  /\ ForeignToken(req)
  /\ req.body.valid
  /\ res.status = 401
  /\ Int4In(req.params.user_id).n \in DOMAIN db.users
  /\ Int4In(req.params.user_id).n \notin DOMAIN db.shopping_list

AuthRoutes ==
  {"POST /auth/token", "POST /auth/register", "POST /auth/googleregister"}

\* the users row the request authenticated or registered, in store d
AuthenticatedIds(request, d) ==
  IF request.route = "POST /auth/register"
  THEN UserIdsWhere(d, "username", request.body.username)
  ELSE IF request.route = "POST /auth/googleregister"
  THEN UserIdsWhere(d, "google_id", request.body.googleId)
  ELSE IF request.body.googleId # Undefined
  THEN UserIdsWhere(d, "google_id", request.body.googleId)
  ELSE UserIdsWhere(d, "username", request.body.username)

AllPaths == GatePaths \cup UserPaths \cup {NumToString(u) : u \in 1..(MaxUsers + 1)}

\* C4: the token of a successful /auth response has the claims firstName,
\* user_id and iat and no other, firstName and user_id being those of the
\* row authenticated or registered; presented as a Bearer token it passes
\* ensureCorrectUser for the path of that user_id and for no other path.
C4_TokenClaims ==
  [][(req'.route \in AuthRoutes /\ res'.status \in {200, 201})
     => \E u \in AuthenticatedIds(req', db') :
          LET token == res'.body.token
              presented == authenticateJWT([authorization |-> Bearer(token)])
          IN /\ AuthenticatedIds(req', db') = {u}
             /\ DOMAIN token.payload = {"firstName", "user_id", "iat"}
             /\ token.payload.firstName = db'.users[u].first_name
             /\ token.payload.user_id = Int4ToJs(u)
             /\ token \in issued'
             /\ \A p \in AllPaths :
                  (ensureCorrectUser(presented.locals, [user_id |-> p]) = NoError)
                    <=> (p = NumToString(u))]_vars

C4_Witness ==
  /\ req.route = "POST /auth/token"
  /\ res.status = 200
  /\ req.body.googleId = "123abc"
  /\ res.body.token.payload.user_id = Int4ToJs(2)
  /\ res.body.token.payload.firstName = "New"
  /\ Cardinality(DOMAIN db.users) = 2

\* C10: a PATCH /shopping/:user_id answered 200 has stored the request's
\* ingredients as the user's list and its body is {list: L}, L being the
\* array now stored.
C10_PatchShoppingReturnsList ==
  [][(req'.route = "PATCH /shopping/:user_id" /\ res'.status = 200)
     => LET u == parseInt(req'.params.user_id).n
        IN /\ u \in DOMAIN db'.shopping_list
           /\ db'.shopping_list[u] = req'.body.ingredients
           /\ res'.body = [list |-> ArrayOf(db'.shopping_list[u])]]_vars

(***************************************************************************)
(* The User class called directly, as the model tests do: any sequence of  *)
(* its methods from the empty store.  update is given the fields its       *)
(* documentation lists (firstName, lastName, password, email), and the     *)
(* e-mail addresses satisfy the CHECK of the users table.                  *)
(***************************************************************************)
GoogleRegisterData ==
  {[firstName |-> "U2F", lastName |-> "U2L", email |-> "user2@user.com",
    googleId |-> "123abc"]}

Usernames == {"u1", "u3", "nope"}
Passwords == {"password1", "new", "wrong"}
GoogleIds == {"123abc", "nope"}

\* ids a caller may pass: every id the sequence can hand out and one more
UserIds == 1..(MaxUsers + 1)

\* the sparse field maps passed to update: none, a remapped field, the
\* password (a new one, and the empty string), and a field kept under its
\* own name before a remapped one
UpdateData ==
  {<<>>,
   <<[k |-> "firstName", v |-> "New"]>>,
   <<[k |-> "password", v |-> "new"]>>,
   <<[k |-> "password", v |-> ""]>>,
   <<[k |-> "email", v |-> "new@user.com"], [k |-> "lastName", v |-> "NewL"]>>}

UserRegister ==
  \E data \in RegisterData :
    /\ register(db, data).db.users_user_id_seq <= MaxUsers
    /\ Call([op |-> "register", data |-> data], register(db, data))

UserGoogleRegister ==
  \E data \in GoogleRegisterData :
    /\ googleRegister(db, data).db.users_user_id_seq <= MaxUsers
    /\ Call([op |-> "googleRegister", data |-> data], googleRegister(db, data))

UserAuthenticate ==
  \E n \in Usernames, p \in Passwords :
    Call([op |-> "authenticate", username |-> n, password |-> p],
         authenticate(db, n, p))

UserAuthenticateWithGoogle ==
  \E g \in GoogleIds :
    Call([op |-> "authenticateWithGoogle", googleId |-> g],
         authenticateWithGoogle(db, g))

UserGet ==
  \E u \in UserIds : Call([op |-> "get", user_id |-> u], get(db, u))

UserUpdate ==
  \E u \in UserIds, data \in UpdateData :
    Call([op |-> "update", user_id |-> u, data |-> data], update(db, u, data))

UserRemove ==
  \E u \in UserIds : Call([op |-> "remove", user_id |-> u], remove(db, u))

UserNext ==
  \/ UserRegister
  \/ UserGoogleRegister
  \/ UserAuthenticate
  \/ UserAuthenticateWithGoogle
  \/ UserGet
  \/ UserUpdate
  \/ UserRemove

SpecUser == ListInit /\ [][UserNext]_vars

\* no two users rows share a username or a google_id that is not null
UsersUnique(d) ==
  \A a \in DOMAIN d.users, b \in DOMAIN d.users :
    a # b => /\ d.users[a].username = NULL \/ d.users[a].username # d.users[b].username
             /\ d.users[a].google_id = NULL \/ d.users[a].google_id # d.users[b].google_id

\* C11: register with a username some user already has throws
\* BadRequestError "Duplicate username", googleRegister with a google_id
\* some user already has throws BadRequestError "Duplicate registration";
\* both leave the store as it was, and after every call no two users share
\* a username or a google_id.
C11_DuplicatesRejected ==
  [][/\ (/\ req'.op = "register"
         /\ UserIdsWhere(db, "username", req'.data.username) # {})
          => /\ res'.err = BadRequestError("Duplicate username")
             /\ res'.err.status = 400
             /\ db' = db
     /\ (/\ req'.op = "googleRegister"
         /\ UserIdsWhere(db, "google_id", req'.data.googleId) # {})
          => /\ res'.err = BadRequestError("Duplicate registration")
             /\ res'.err.status = 400
             /\ db' = db
     /\ UsersUnique(db')]_vars

C11_Witness ==
  /\ req.op = "register"
  /\ res.err.status = 400
  /\ UserIdsWhere(db, "username", req.data.username) # {}
  /\ Cardinality(DOMAIN db.users) = 2
  /\ UserIdsWhere(db, "google_id", "123abc") # {}

\* C12: authenticate leaves the store alone and has two outcomes only: when
\* no row has the username and when a row has it but the password does not
\* match its digest, the one error UnauthorizedError "Invalid
\* username/password" (401) and no value; otherwise the row's user_id,
\* username, firstName, lastName and email, without the password.
C12_AuthFailuresAlike ==
  [][req'.op = "authenticate"
     => LET found == UserIdsWhere(db, "username", req'.username)
            matching == {id \in found :
                           bcryptCompare(req'.password, db.users[id].password)}
        IN /\ db' = db
           /\ matching = {}
                => res' = [err |-> UnauthorizedError("Invalid username/password"),
                           ret |-> Undefined]
           /\ matching # {}
                => /\ res'.err = NoError
                   /\ \E id \in matching :
                        res'.ret = [user_id |-> Int4ToJs(id),
                                    username |-> req'.username,
                                    firstName |-> db.users[id].first_name,
                                    lastName |-> db.users[id].last_name,
                                    email |-> db.users[id].email]]_vars

\* a user has the username and the password given is not theirs
C12_Witness ==
  /\ req.op = "authenticate"
  /\ res.err.status = 401
  /\ UserIdsWhere(db, "username", req.username) # {}
  /\ req.password = "wrong"

\* C13: the authenticate that follows a successful register of (n, p) under
\* username n succeeds with p and throws UnauthorizedError with any other
\* password; the authenticate that follows a successful update of a user's
\* password to a non-empty q, under that user's username and q, succeeds.
C13_PasswordLifecycle ==
  [][/\ (/\ req.op = "register"
         /\ res.err = NoError
         /\ req'.op = "authenticate"
         /\ req'.username = req.data.username)
          => IF req'.password = req.data.password
             THEN res'.err = NoError /\ res'.ret.username = req.data.username
             ELSE res'.err = UnauthorizedError("Invalid username/password")
     /\ (/\ req.op = "update"
         /\ res.err = NoError
         /\ HasKey(req.data, "password")
         /\ ValueOf(req.data, "password") # ""
         /\ req'.op = "authenticate"
         /\ req'.username = db.users[req.user_id].username
         /\ req'.password = ValueOf(req.data, "password"))
          => /\ res'.err = NoError
             /\ res'.ret.user_id = Int4ToJs(req.user_id)]_vars

\* the new password is accepted for a user registered with another one
C13_Witness ==
  /\ req.op = "authenticate"
  /\ res.err = NoError
  /\ req.password = "new"
  /\ req.username = "u1"

\* C15: update with an empty field map throws the error of the Clause
\* Builder, whether or not the user exists, and changes no table.
C15_EmptyUpdateRejected ==
  [][(req'.op = "update" /\ req'.data = <<>>)
     => /\ res'.err # NoError
        /\ res'.err = sqlForPartialUpdate(<<>>, UserJsToSql).err
        /\ res'.ret = Undefined
        /\ db' = db]_vars

C15_Witness ==
  /\ req.op = "update"
  /\ req.data = <<>>
  /\ req.user_id \in DOMAIN db.users
  /\ res.err.status = 400

\* the users column a field of update is stored in
ColumnOf(field) ==
  IF field = "firstName" THEN "first_name"
  ELSE IF field = "lastName" THEN "last_name"
  ELSE field

\* C20: a successful update(id, fields) gives every column named in fields
\* its new value (for a password that is not empty, its digest), keeps every
\* other column of the row, every other users row and every other table,
\* and returns user_id, firstName, lastName and email as now stored, without
\* password.
C20_UpdateFrame ==
  [][(req'.op = "update" /\ res'.err = NoError)
     => LET id == req'.user_id
            fields == req'.data
            named == {ColumnOf(fields[i].k) : i \in 1..Len(fields)}
        IN /\ DOMAIN db'.users = DOMAIN db.users
           /\ \A u \in DOMAIN db.users \ {id} : db'.users[u] = db.users[u]
           /\ \A c \in UserColumns \ named : db'.users[id][c] = db.users[id][c]
           /\ \A i \in 1..Len(fields) :
                db'.users[id][ColumnOf(fields[i].k)] =
                  IF fields[i].k = "password" /\ fields[i].v # ""
                  THEN bcryptHash(fields[i].v)
                  ELSE fields[i].v
           /\ [db' EXCEPT !.users = db.users] = db
           /\ res'.ret =
                [user_id |-> Int4ToJs(id),
                 firstName |-> IF HasKey(fields, "firstName")
                               THEN ValueOf(fields, "firstName")
                               ELSE db.users[id].first_name,
                 lastName |-> IF HasKey(fields, "lastName")
                              THEN ValueOf(fields, "lastName")
                              ELSE db.users[id].last_name,
                 email |-> IF HasKey(fields, "email")
                           THEN ValueOf(fields, "email")
                           ELSE db.users[id].email]]_vars

\* two fields changed in one call while another user is registered
C20_Witness ==
  /\ req.op = "update"
  /\ res.err = NoError
  /\ Len(req.data) = 2
  /\ Cardinality(DOMAIN db.users) = 2
  /\ db.users[req.user_id].last_name = "NewL"
  /\ db.users[req.user_id].first_name # "New"
  /\ \E u \in DOMAIN db.users : db.users[u].last_name # "NewL"

(***************************************************************************)
(* The Clause Builder applied to sparse field maps and remap tables, and   *)
(* the statement User.update builds from its result.  A fragment           *)
(* "<column> = $<idx>" is the record of its column and its index.          *)
(***************************************************************************)
MaxFields == 3     \* most fields in one field map

ClauseFields == {"firstName", "lastName", "email", "password"}

\* the field maps of at most n entries with different keys; a field's new
\* value is named after the field
RECURSIVE FieldMaps(_)
FieldMaps(n) ==
  IF n = 0 THEN {<<>>}
  ELSE LET shorter == FieldMaps(n - 1)
       IN shorter \cup
          {Append(p[1], [k |-> p[2], v |-> "new " \o p[2]]) :
             p \in {q \in shorter \X ClauseFields :
                      Len(q[1]) = n - 1 /\ ~HasKey(q[1], q[2])}}

\* remap tables as lists of [field, column] pairs: none, the table of
\* User.update, and one that remaps email as well
RemapTables ==
  {<<>>,
   <<[field |-> "firstName", column |-> "first_name"],
     [field |-> "lastName", column |-> "last_name"]>>,
   <<[field |-> "email", column |-> "e_mail"],
     [field |-> "firstName", column |-> "first_name"]>>}

\* the object { field: column, ... } of a list of pairs
TableOf(pairs) ==
  [f \in {pairs[i].field : i \in 1..Len(pairs)} |->
     pairs[CHOOSE i \in 1..Len(pairs) : pairs[i].field = f].column]

ClauseInit ==
  /\ db = EmptyDb
  /\ issued = {}
  /\ req = NoCall
  /\ res = NoResult
  /\ locals = NoLocals
  /\ nextErr = NotCalled
  /\ stage = "call"

BuildClause ==
  \E data \in FieldMaps(MaxFields), pairs \in RemapTables :
    LET sql == sqlForPartialUpdate(data, TableOf(pairs))
    IN /\ req' = [op |-> "sqlForPartialUpdate", data |-> data, jsToSql |-> pairs]
       /\ res' = [err |-> sql.err,
                  ret |-> [setCols |-> sql.setCols, values |-> sql.values]]
       /\ UNCHANGED <<db, issued, locals, nextErr, stage>>

BuildUpdate ==
  \E data \in FieldMaps(MaxFields), u \in UserIds :
    LET sql == UpdateStatement(u, data)
    IN /\ req' = [op |-> "update", data |-> data, user_id |-> u]
       /\ res' = [err |-> sql.err,
                  ret |-> [setCols |-> sql.setCols,
                           useridVarIdx |-> sql.useridVarIdx,
                           params |-> sql.params]]
       /\ UNCHANGED <<db, issued, locals, nextErr, stage>>

ClauseNext ==
  \/ BuildClause
  \/ BuildUpdate

SpecClause == ClauseInit /\ [][ClauseNext]_vars

\* C14: for a field map of N >= 1 fields and a remap table, the Clause
\* Builder returns N fragments, the i-th with placeholder i and the column
\* the table gives the i-th field (the field's own name when the table has
\* no entry for it), and the N values in the same order; User.update uses
\* the table {firstName: first_name, lastName: last_name} and binds the
\* user id as parameter N + 1.
C14_ClauseShape ==
  /\ (req.op = "sqlForPartialUpdate" /\ req.data # <<>>)
       => LET N == Len(req.data)
              remapped(f) ==
                IF \E i \in 1..Len(req.jsToSql) : req.jsToSql[i].field = f
                THEN (CHOOSE p \in Elems(req.jsToSql) : p.field = f).column
                ELSE f
          IN /\ res.err = NoError
             /\ Len(res.ret.setCols) = N
             /\ Len(res.ret.values) = N
             /\ \A i \in 1..N :
                  /\ res.ret.setCols[i].placeholder = i
                  /\ res.ret.setCols[i].column = remapped(req.data[i].k)
                  /\ res.ret.values[i] = req.data[i].v
  /\ (req.op = "update" /\ req.data # <<>>)
       => LET N == Len(req.data)
          IN /\ res.err = NoError
             /\ Len(res.ret.setCols) = N
             /\ \A i \in 1..N :
                  /\ res.ret.setCols[i].placeholder = i
                  /\ res.ret.setCols[i].column = ColumnOf(req.data[i].k)
             /\ res.ret.useridVarIdx = N + 1
             /\ Len(res.ret.params) = N + 1
             /\ res.ret.params[N + 1] = req.user_id

\* three fields, the second of them remapped
C14_Witness ==
  /\ req.op = "sqlForPartialUpdate"
  /\ Len(req.data) = 3
  /\ req.data[2].k = "firstName"
  /\ req.data[1].k = "email"
  /\ req.jsToSql # <<>>
  /\ res.ret.setCols[2] = [column |-> "first_name", placeholder |-> 2]
  /\ res.ret.setCols[1] = [column |-> "email", placeholder |-> 1]

(***************************************************************************)
(* The four data-access classes called directly, one call after the       *)
(* other, from the empty store: users own recipe associations and a        *)
(* shopping list.  A recipe id is r1 or r" (with a double quote, which     *)
(* createRecipe escapes).                                                  *)
(***************************************************************************)
StoreRecipeIds == {<<"r", "1">>, <<"r", "\"">>}

\* a recipe of each id, and r1 again under a label with a double quote
StoreRecipes ==
  {[recipe_id |-> id, label |-> <<"a">>, image |-> <<"a">>,
    ingredients |-> <<"i1", "i2">>, url |-> <<"a">>] : id \in StoreRecipeIds}
  \cup {[recipe_id |-> <<"r", "1">>, label |-> <<"a", "\"">>, image |-> <<"a">>,
         ingredients |-> <<"i1">>, url |-> <<"a">>]}

\* the ids a caller passes for a stored recipe: the ids as stored
StoredRecipeIds == {sanitize(id) : id \in StoreRecipeIds}

StoreLists == {<<"i1">>}

StoreRegister ==
  \E data \in RegisterData :
    /\ register(db, data).db.users_user_id_seq <= MaxUsers
    /\ Call([op |-> "register", data |-> data], register(db, data))

StoreRemove ==
  \E u \in UserIds : Call([op |-> "remove", user_id |-> u], remove(db, u))

StoreGet ==
  \E u \in UserIds : Call([op |-> "get", user_id |-> u], get(db, u))

StoreCreateRecipe ==
  \E data \in StoreRecipes :
    Call([op |-> "createRecipe", data |-> data], createRecipe(db, data))

StoreGetRecipe ==
  \E k \in StoreRecipeIds \cup StoredRecipeIds :
    Call([op |-> "getRecipe", recipe_id |-> k], getRecipe(db, k))

StoreAddToUser ==
  \E u \in UserIds, k \in StoredRecipeIds :
    Call([op |-> "addToUser", recipe_id |-> k, user_id |-> u],
         addToUser(db, k, u))

StoreRemoveFromUser ==
  \E u \in UserIds, k \in StoredRecipeIds :
    Call([op |-> "removeFromUser", recipe_id |-> k, user_id |-> u],
         removeFromUser(db, u, k))

StoreUpdateList ==
  \E u \in UserIds, a \in StoreLists :
    Call([op |-> "updateList", user_id |-> u, ingredients |-> a],
         updateList(db, u, a))

StoreGetUserShoppingList ==
  \E u \in UserIds :
    Call([op |-> "getUserShoppingList", user_id |-> u],
         getUserShoppingList(db, u))

StoreNext ==
  \/ StoreRegister
  \/ StoreRemove
  \/ StoreGet
  \/ StoreCreateRecipe
  \/ StoreGetRecipe
  \/ StoreAddToUser
  \/ StoreRemoveFromUser
  \/ StoreUpdateList
  \/ StoreGetUserShoppingList

SpecStore == ListInit /\ [][StoreNext]_vars

\* the recipes_users rows of user u
AssocsOf(d, u) == {r \in DOMAIN d.recipes_users : r[1] = u}

\* C16: a remove(u) that returns leaves no users row, no recipes_users row
\* and no shopping_list row of u, and keeps the recipes table and the row,
\* the associations and the shopping list of every other user; the get(u)
\* that follows throws NotFoundError and the getUserShoppingList(u) that
\* follows returns the empty array.
C16_RemoveCascades ==
  [][/\ (req'.op = "remove" /\ res'.err = NoError)
          => LET u == req'.user_id
             IN /\ DOMAIN db'.users = DOMAIN db.users \ {u}
                /\ AssocsOf(db', u) = {}
                /\ DOMAIN db'.shopping_list = DOMAIN db.shopping_list \ {u}
                /\ db'.recipes = db.recipes
                /\ \A v \in DOMAIN db.users \ {u} :
                     /\ db'.users[v] = db.users[v]
                     /\ AssocsOf(db', v) = AssocsOf(db, v)
                     /\ \A r \in AssocsOf(db, v) :
                          db'.recipes_users[r] = db.recipes_users[r]
                     /\ v \in DOMAIN db.shopping_list
                          => db'.shopping_list[v] = db.shopping_list[v]
     /\ (/\ req.op = "remove"
         /\ res.err = NoError
         /\ req'.op = "get"
         /\ req'.user_id = req.user_id)
          => res'.err = NotFoundError("No user")
     /\ (/\ req.op = "remove"
         /\ res.err = NoError
         /\ req'.op = "getUserShoppingList"
         /\ req'.user_id = req.user_id)
          => res' = [err |-> NoError, ret |-> ArrayOf(<<>>)]]_vars

\* a user was removed while the other one owns an association and a list
C16_Witness ==
  /\ req.op = "remove"
  /\ res.err = NoError
  /\ db.recipes # EmptyTable
  /\ \E v \in DOMAIN db.users :
       /\ AssocsOf(db, v) # {}
       /\ v \in DOMAIN db.shopping_list

\* C24: the getRecipe(k) that follows a createRecipe with recipe_id k that
\* returned and whose row is the stored one returns the label, image,
\* ingredients and url that createRecipe was given.
C24_CreateGetRoundTrip ==
  [][(/\ req.op = "createRecipe"
      /\ res.err = NoError
      /\ sanitize(req.data.recipe_id) \in DOMAIN db.recipes
      /\ db.recipes[sanitize(req.data.recipe_id)] =
           [label |-> sanitize(req.data.label),
            image |-> sanitize(req.data.image),
            ingredients |-> req.data.ingredients,
            url |-> sanitize(req.data.url)]
      /\ req'.op = "getRecipe"
      /\ req'.recipe_id = req.data.recipe_id)
     => /\ res'.err = NoError
        /\ res'.ret = [label |-> req.data.label,
                       image |-> req.data.image,
                       ingredients |-> req.data.ingredients,
                       url |-> req.data.url]]_vars

\* C18: a createRecipe that follows a successful createRecipe with the same
\* recipe_id changes no table and returns, without throwing, the escaped
\* label, image, ingredients and url it was given.
C18_RepeatedCreateIsNoOp ==
  [][(/\ req.op = "createRecipe"
      /\ res.err = NoError
      /\ req'.op = "createRecipe"
      /\ req'.data.recipe_id = req.data.recipe_id)
     => /\ db' = db
        /\ res'.err = NoError
        /\ res'.ret = <<sanitize(req'.data.label), sanitize(req'.data.image),
                        sanitize(JSONStringify(req'.data.ingredients)),
                        sanitize(req'.data.url)>>]_vars

(***************************************************************************)
(* Concurrent requests.  The server handles a request up to its next       *)
(* await and then turns to another one; every db.query goes through the    *)
(* one pg Client, which runs the statements one at a time, each in its own *)
(* transaction.  Two clients call the data-access methods, a step being    *)
(* one statement of one call; req, res and stage hold, for each client,    *)
(* the call, its result and the statement it is to run next.               *)
(***************************************************************************)
Clients == {"c1", "c2"}

ConcRecipes ==
  {[recipe_id |-> <<"r", "1">>, label |-> <<"a">>, image |-> <<"a">>,
    ingredients |-> <<"i1", "i2">>, url |-> <<"a">>]}

ConcIngredients == {<<"i1">>, <<"i2">>, <<"i1", "i2">>}

ConcInit ==
  /\ db = EmptyDb
  /\ issued = {}
  /\ req = [c \in Clients |-> NoCall]
  /\ res = [c \in Clients |-> NoResult]
  /\ locals = NoLocals
  /\ nextErr = NotCalled
  /\ stage = [c \in Clients |-> "idle"]

\* client c calls a method: its first statement is to run next
Begin(c, call, first) ==
  /\ stage[c] \in {"idle", "done"}
  /\ req' = [req EXCEPT ![c] = call]
  /\ res' = [res EXCEPT ![c] = NoResult]
  /\ stage' = [stage EXCEPT ![c] = first]
  /\ UNCHANGED <<db, issued, locals, nextErr>>

\* the call of client c returns or throws r
Finish(c, r) ==
  /\ db' = r.db
  /\ res' = [res EXCEPT ![c] = Result(r)]
  /\ stage' = [stage EXCEPT ![c] = "done"]
  /\ UNCHANGED <<issued, req, locals, nextErr>>

\* the call of client c goes on to its next statement
Continue(c, d, next) ==
  /\ db' = d
  /\ stage' = [stage EXCEPT ![c] = next]
  /\ UNCHANGED <<issued, req, res, locals, nextErr>>

Registering == {c \in Clients : stage[c] \in {"register.select", "register.insert"}}

BeginRegister ==
  \E c \in Clients, data \in RegisterData :
    /\ db.users_user_id_seq + Cardinality(Registering) < MaxListUsers
    /\ Begin(c, [op |-> "register", data |-> data], "register.select")

\* SELECT username FROM users WHERE username = $1
RegisterSelect ==
  \E c \in Clients :
    /\ stage[c] = "register.select"
    /\ IF UserIdsWhere(db, "username", req[c].data.username) # {}
       THEN Finish(c, Thrown(db, BadRequestError("Duplicate username")))
       ELSE Continue(c, db, "register.insert")

\* INSERT INTO users ...; username is UNIQUE, and the sequence has moved on
\* even when the row is refused
RegisterInsert ==
  \E c \in Clients :
    /\ stage[c] = "register.insert"
    /\ LET data == req[c].data
           d2 == InsertUser(db, [username |-> data.username,
                                 password |-> bcryptHash(data.password),
                                 first_name |-> data.firstName,
                                 last_name |-> data.lastName,
                                 email |-> data.email,
                                 google_id |-> NULL])
       IN IF UserIdsWhere(db, "username", data.username) # {}
          THEN Finish(c, Thrown([db EXCEPT !.users_user_id_seq = @ + 1],
                                StoreError("duplicate key value violates users_username_key")))
          ELSE Finish(c, Returned(d2, ProfileWithUsername(d2, d2.users_user_id_seq)))

BeginCreateRecipe ==
  \E c \in Clients, data \in ConcRecipes :
    Begin(c, [op |-> "createRecipe", data |-> data], "createRecipe.select")

\* SELECT recipe_id FROM recipes WHERE recipe_id = $1
CreateRecipeSelect ==
  \E c \in Clients :
    /\ stage[c] = "createRecipe.select"
    /\ LET data == req[c].data
       IN IF data.recipe_id \in DOMAIN db.recipes
          THEN Finish(c, Returned(db, <<sanitize(data.label), sanitize(data.image),
                                        sanitize(JSONStringify(data.ingredients)),
                                        sanitize(data.url)>>))
          ELSE Continue(c, db, "createRecipe.insert")

\* INSERT INTO recipes ...; recipe_id is the primary key
CreateRecipeInsert ==
  \E c \in Clients :
    /\ stage[c] = "createRecipe.insert"
    /\ LET data == req[c].data
           id == sanitize(data.recipe_id)
           d2 == [db EXCEPT !.recipes =
                    PutRow(@, id, [label |-> sanitize(data.label),
                                   image |-> sanitize(data.image),
                                   ingredients |-> data.ingredients,
                                   url |-> sanitize(data.url)])]
       IN IF id \in DOMAIN db.recipes
          THEN Finish(c, Thrown(db, StoreError("duplicate key value violates recipes_pkey")))
          ELSE Finish(c, Returned(d2, RecipeRow(d2, id)))

BeginAddToUser ==
  \E c \in Clients, u \in CallUserIds, data \in ConcRecipes :
    Begin(c, [op |-> "addToUser", recipe_id |-> data.recipe_id, user_id |-> u],
          "addToUser.select")

\* SELECT 1 FROM recipes_users WHERE recipe_id = $1 AND user_id = $2
AddToUserSelect ==
  \E c \in Clients :
    /\ stage[c] = "addToUser.select"
    /\ IF AssocCount(db, req[c].user_id, req[c].recipe_id) > 0
       THEN Finish(c, Returned(db, [column1 |-> 1]))
       ELSE Continue(c, db, "addToUser.insert")

AddToUserInsert ==
  \E c \in Clients :
    /\ stage[c] = "addToUser.insert"
    /\ Finish(c, InsertAssoc(db, req[c].recipe_id, req[c].user_id))

BeginAddRecipeIngredients ==
  \E c \in Clients, u \in CallUserIds, a \in ConcIngredients :
    Begin(c, [op |-> "addRecipeIngredients", user_id |-> u, ingredients |-> a],
          "addRecipeIngredients.select")

\* SELECT 1 FROM users WHERE user_id = $1
AddRecipeIngredientsSelect ==
  \E c \in Clients :
    /\ stage[c] = "addRecipeIngredients.select"
    /\ IF req[c].user_id \notin DOMAIN db.users
       THEN Finish(c, Thrown(db, NotFoundError("No user found with ID")))
       ELSE Continue(c, db, "addRecipeIngredients.upsert")

AddRecipeIngredientsUpsert ==
  \E c \in Clients :
    /\ stage[c] = "addRecipeIngredients.upsert"
    /\ LET up == MergeUpsert(db, req[c].user_id, req[c].ingredients)
       IN IF up.err # NoError THEN Finish(c, up)
          ELSE Continue(c, up.db, "addRecipeIngredients.read")

\* return this.getUserShoppingList(user_id)
AddRecipeIngredientsRead ==
  \E c \in Clients :
    /\ stage[c] = "addRecipeIngredients.read"
    /\ Finish(c, getUserShoppingList(db, req[c].user_id))

\* concurrent association requests: users register, recipes are created
\* and associated
AssociateNext ==
  \/ BeginRegister
  \/ RegisterSelect
  \/ RegisterInsert
  \/ BeginCreateRecipe
  \/ CreateRecipeSelect
  \/ CreateRecipeInsert
  \/ BeginAddToUser
  \/ AddToUserSelect
  \/ AddToUserInsert

SpecAssociate == ConcInit /\ [][AssociateNext]_vars

\* concurrent merge requests: users register and add ingredients
MergeNext ==
  \/ BeginRegister
  \/ RegisterSelect
  \/ RegisterInsert
  \/ BeginAddRecipeIngredients
  \/ AddRecipeIngredientsSelect
  \/ AddRecipeIngredientsUpsert
  \/ AddRecipeIngredientsRead

SpecMerge == ConcInit /\ [][MergeNext]_vars

\* C17: in every reachable state, under any interleaving of the statements
\* of concurrent addToUser calls, recipes_users holds at most one row per
\* (user, recipe) pair.
C17_OneRowPerPair ==
  \A r \in DOMAIN db.recipes_users : db.recipes_users[r] <= 1

\* client c has run the upsert of an addRecipeIngredients call
Upserted(c) ==
  /\ req[c].op = "addRecipeIngredients"
  /\ \/ stage[c] = "addRecipeIngredients.read"
     \/ stage[c] = "done" /\ res[c].err = NoError

\* C19: under every interleaving of the statements of concurrent
\* addRecipeIngredients calls, no step removes an ingredient from a stored
\* list, and the stored list of the user holds every ingredient of every
\* call whose upsert has run.
C19_NoLostUpdate ==
  [][/\ \A u \in DOMAIN db.shopping_list :
          /\ u \in DOMAIN db'.shopping_list
          /\ Elems(db.shopping_list[u]) \subseteq Elems(db'.shopping_list[u])
     /\ \A c \in Clients :
          (Upserted(c))'
            => /\ req'[c].user_id \in DOMAIN db'.shopping_list
               /\ Elems(req'[c].ingredients)
                    \subseteq Elems(db'.shopping_list[req'[c].user_id])]_vars

\* both upserts have run before either call has read the list back
C19_Witness ==
  /\ \A c \in Clients :
       /\ req[c].op = "addRecipeIngredients"
       /\ stage[c] = "addRecipeIngredients.read"
       /\ req[c].user_id = 1
  /\ req["c1"].ingredients = <<"i1">>
  /\ req["c2"].ingredients = <<"i2">>
  /\ Elems(db.shopping_list[1]) = {"i1", "i2"}

(***************************************************************************)
(* The shopping_list rows over any sequence of calls of SpecList.          *)
(***************************************************************************)
\* C21: a shopping_list row, once stored for user u, is still stored after
\* every call of getUserShoppingList, addRecipeIngredients and updateList
\* (for any user id); only a remove(u) that returns takes it away.
C21_ListRowPersists ==
  [][\A u \in DOMAIN db.shopping_list :
       \/ u \in DOMAIN db'.shopping_list
       \/ /\ req'.op = "remove"
          /\ req'.user_id = u
          /\ res'.err = NoError]_vars

\* the list was replaced by the empty array and its row is still there
C21_Witness ==
  /\ req.op = "updateList"
  /\ req.ingredients = <<>>
  /\ res.err = NoError
  /\ req.user_id \in DOMAIN db.shopping_list
  /\ db.shopping_list[req.user_id] = <<>>

C25_PasswordsAreDigests ==
  \A u \in DOMAIN db.users :
    \/ db.users[u].password = NULL
    \/ \E plain \in Passwords \cup {""} :
         db.users[u].password = bcryptHash(plain)

(***************************************************************************)
(* Requests of a removed user at the routes of Spec.                       *)
(***************************************************************************)
\* the request carries a token handed out to the user of its path
OwnToken(request) ==
  /\ request.headers.authorization.present
  /\ request.headers.authorization.token \in issued
  /\ StringOf(request.headers.authorization.token.payload.user_id)
       = request.params.user_id

\* C26: a request on an owner-only route with a token handed out to the
\* user of its path, after that user was removed, changes no table and is
\* answered with an error or with an empty list.
C26_RemovedUserChangesNothing ==
  [][(/\ req'.route \in OwnerOnlyRoutes
      /\ OwnToken(req')
      /\ Int4In(req'.params.user_id).n \notin DOMAIN db.users)
     => /\ db' = db
        /\ \/ res'.status >= 400
           \/ /\ req'.route = "GET /shopping/:user_id"
              /\ res'.body = [list |-> ArrayOf(<<>>)]
           \/ /\ req'.route = "GET /recipes/:user_id"
              /\ res'.body = [recipes |-> <<>>]]_vars

(***************************************************************************)
(* POST /recipes/:user_id/:recipe_id at the level of store statements.     *)
(* db is one pg Client: db.query() puts a statement at the end of the      *)
(* Client's queue, and the Client runs the queue in order, one statement   *)
(* at a time.  A handler runs up to its next await, so a statement joins   *)
(* the queue when the call that issues it starts or when the statement the *)
(* call waited for has returned.  stage holds the Client's queue and the   *)
(* clients whose register is hashing; locals holds, for each client, the   *)
(* two promises of its POST.                                               *)
(***************************************************************************)
QueueRecipeBodies ==
  {[recipe_id |-> id, label |-> <<"a">>, image |-> <<"a">>,
    ingredients |-> <<"i1">>, url |-> <<"a">>] : id \in StoreRecipeIds}

Pending == [state |-> "pending", err |-> NoError, value |-> Undefined]

Settled(r) ==
  [state |-> IF r.err = NoError THEN "fulfilled" ELSE "rejected",
   err |-> r.err, value |-> r.ret]

NoPromises == [createRecipe |-> Pending, addToUser |-> Pending]

QueueInit ==
  /\ db = EmptyDb
  /\ issued = {}
  /\ req = [c \in Clients |-> NoRequest]
  /\ res = [c \in Clients |-> NoResponse]
  /\ locals = [c \in Clients |-> NoPromises]
  /\ nextErr = NotCalled
  /\ stage = [queue |-> <<>>, hashing |-> {}]

Query(c, task, statement) == [client |-> c, task |-> task, statement |-> statement]

\* client c has a request that is unanswered or whose statements are
\* still queued
InFlight(c) ==
  \/ req[c].route # "none" /\ res[c].status = 0
  \/ \E i \in 1..Len(stage.queue) : stage.queue[i].client = c

\* the handler answers before it has issued a statement
Answered(c, request, out) ==
  /\ req' = [req EXCEPT ![c] = request]
  /\ res' = [res EXCEPT ![c] = [status |-> out.status, body |-> out.body]]
  /\ locals' = [locals EXCEPT ![c] = NoPromises]
  /\ UNCHANGED <<db, issued, nextErr, stage>>

\* the handler has issued its first statements and awaits them
Awaiting(c, request, queries) ==
  /\ req' = [req EXCEPT ![c] = request]
  /\ res' = [res EXCEPT ![c] = NoResponse]
  /\ locals' = [locals EXCEPT ![c] = NoPromises]
  /\ stage' = [stage EXCEPT !.queue = @ \o queries]
  /\ UNCHANGED <<db, issued, nextErr>>

\* the statement the Client runs next
Runs(task, statement) ==
  /\ stage.queue # <<>>
  /\ Head(stage.queue).task = task
  /\ Head(stage.queue).statement = statement

\* the head statement has returned and its caller has issued `next`
Dequeued(next) == [stage EXCEPT !.queue = Tail(@) \o next]

RegistersInFlight ==
  Cardinality(stage.hashing)
  + Cardinality({i \in 1..Len(stage.queue) : stage.queue[i].task = "register"})

ArriveRegister ==
  \E c \in Clients, body \in RegisterBodies :
    LET request == Request("POST /auth/register", NoAuthorization, NoParams, body)
    IN /\ ~InFlight(c)
       /\ db.users_user_id_seq + RegistersInFlight < MaxListUsers
       /\ IF ~jsonschemaValid(body)
          THEN Answered(c, request, Failed(db, BadRequestError("invalid payload")))
          ELSE Awaiting(c, request, <<Query(c, "register", "select")>>)

\* SELECT username FROM users WHERE username = $1, then await bcrypt.hash
RunRegisterSelect ==
  /\ Runs("register", "select")
  /\ LET c == Head(stage.queue).client
         out == Failed(db, BadRequestError("Duplicate username"))
     IN IF UserIdsWhere(db, "username", req[c].body.username) # {}
        THEN /\ res' = [res EXCEPT ![c] = [status |-> out.status, body |-> out.body]]
             /\ stage' = Dequeued(<<>>)
             /\ UNCHANGED <<db, issued, req, locals, nextErr>>
        ELSE /\ stage' = [queue |-> Tail(stage.queue),
                          hashing |-> stage.hashing \cup {c}]
             /\ UNCHANGED <<db, issued, req, res, locals, nextErr>>

\* bcrypt.hash has resolved: register issues its INSERT
RegisterHashed ==
  \E c \in stage.hashing :
    /\ stage' = [queue |-> Append(stage.queue, Query(c, "register", "insert")),
                 hashing |-> stage.hashing \ {c}]
    /\ UNCHANGED <<db, issued, req, res, locals, nextErr>>

\* INSERT INTO users ... RETURNING, then res.status(201).json({ token })
RunRegisterInsert ==
  \E now \in Times :
    /\ Runs("register", "insert")
    /\ LET c == Head(stage.queue).client
           data == req[c].body
           d2 == InsertUser(db, [username |-> data.username,
                                 password |-> bcryptHash(data.password),
                                 first_name |-> data.firstName,
                                 last_name |-> data.lastName,
                                 email |-> data.email,
                                 google_id |-> NULL])
           r == IF UserIdsWhere(db, "username", data.username) # {}
                THEN Thrown([db EXCEPT !.users_user_id_seq = @ + 1],
                            StoreError("duplicate key value violates users_username_key"))
                ELSE Returned(d2, ProfileWithUsername(d2, d2.users_user_id_seq))
           out == TokenSent(r, 201, now)
       IN /\ db' = out.db
          /\ issued' = issued \cup out.tokens
          /\ res' = [res EXCEPT ![c] = [status |-> out.status, body |-> out.body]]
          /\ stage' = Dequeued(<<>>)
          /\ UNCHANGED <<req, locals, nextErr>>

\* the order in which the handler starts its two calls, each of which
\* issues its first statement before it returns its promise
PostRecipeTasks_swapped == <<"addToUser", "createRecipe">>

PostRecipeTasks == <<"createRecipe", "addToUser">>

ArrivePostRecipe ==
  \E c \in Clients, a \in Authorizations, p \in UserPaths,
     k \in StoreRecipeIds, body \in QueueRecipeBodies :
    LET request == Request("POST /recipes/:user_id/:recipe_id", a,
                           [user_id |-> p, recipe_id |-> k], body)
        gate == ensureCorrectUser(authenticateJWT(request.headers).locals,
                                  request.params)
    IN /\ ~InFlight(c)
       /\ IF gate # NoError THEN Answered(c, request, Failed(db, gate))
          ELSE IF isNaN(parseInt(p))
          THEN Answered(c, request, Failed(db, BadRequestError("Invalid user ID.")))
          ELSE Awaiting(c, request,
                        [i \in 1..Len(PostRecipeTasks) |->
                           Query(c, PostRecipeTasks[i], "select")])

\* await Promise.all([createRecipePromise, addToUserPromise]): one of the
\* two calls of client c has returned or thrown r.  Promise.all rejects
\* with the first rejection and fulfils when both promises have; the
\* handler then answers, res.json({ recipe }) or next(err), once.
PromiseAll(c, task, r) ==
  LET promises == [locals[c] EXCEPT ![task] = Settled(r)]
      out == IF r.err # NoError THEN Failed(r.db, r.err)
             ELSE Sent(r.db, 200, [recipe |-> promises.createRecipe.value])
      answers == /\ res[c].status = 0
                 /\ \/ r.err # NoError
                    \/ \A t \in DOMAIN promises : promises[t].state = "fulfilled"
  IN /\ db' = r.db
     /\ locals' = [locals EXCEPT ![c] = promises]
     /\ res' = IF answers
               THEN [res EXCEPT ![c] = [status |-> out.status, body |-> out.body]]
               ELSE res
     /\ UNCHANGED <<issued, req, nextErr>>

\* SELECT recipe_id FROM recipes WHERE recipe_id = $1
RunCreateRecipeSelect ==
  /\ Runs("createRecipe", "select")
  /\ LET c == Head(stage.queue).client
         data == req[c].body
     IN IF data.recipe_id \in DOMAIN db.recipes
        THEN /\ PromiseAll(c, "createRecipe",
                           Returned(db, <<sanitize(data.label), sanitize(data.image),
                                          sanitize(JSONStringify(data.ingredients)),
                                          sanitize(data.url)>>))
             /\ stage' = Dequeued(<<>>)
        ELSE /\ stage' = Dequeued(<<Query(c, "createRecipe", "insert")>>)
             /\ UNCHANGED <<db, issued, req, res, locals, nextErr>>

\* INSERT INTO recipes ... RETURNING label, image, ingredients, url
RunCreateRecipeInsert ==
  /\ Runs("createRecipe", "insert")
  /\ LET c == Head(stage.queue).client
         data == req[c].body
         id == sanitize(data.recipe_id)
         d2 == [db EXCEPT !.recipes =
                  PutRow(@, id, [label |-> sanitize(data.label),
                                 image |-> sanitize(data.image),
                                 ingredients |-> data.ingredients,
                                 url |-> sanitize(data.url)])]
     IN /\ PromiseAll(c, "createRecipe",
                      IF id \in DOMAIN db.recipes
                      THEN Thrown(db, StoreError("duplicate key value violates recipes_pkey"))
                      ELSE Returned(d2, RecipeRow(d2, id)))
        /\ stage' = Dequeued(<<>>)

\* SELECT 1 FROM recipes_users WHERE recipe_id = $1 AND user_id = $2
RunAddToUserSelect ==
  /\ Runs("addToUser", "select")
  /\ LET c == Head(stage.queue).client
         userId == parseInt(req[c].params.user_id).n
     IN IF AssocCount(db, userId, req[c].params.recipe_id) > 0
        THEN /\ PromiseAll(c, "addToUser", Returned(db, [column1 |-> 1]))
             /\ stage' = Dequeued(<<>>)
        ELSE /\ stage' = Dequeued(<<Query(c, "addToUser", "insert")>>)
             /\ UNCHANGED <<db, issued, req, res, locals, nextErr>>

\* INSERT INTO recipes_users (recipe_id, user_id) VALUES ($1, $2)
RunAddToUserInsert ==
  /\ Runs("addToUser", "insert")
  /\ LET c == Head(stage.queue).client
     IN /\ PromiseAll(c, "addToUser",
                      InsertAssoc(db, req[c].params.recipe_id,
                                  parseInt(req[c].params.user_id).n))
        /\ stage' = Dequeued(<<>>)

QueueNext ==
  \/ ArriveRegister
  \/ RunRegisterSelect
  \/ RegisterHashed
  \/ RunRegisterInsert
  \/ ArrivePostRecipe
  \/ RunCreateRecipeSelect
  \/ RunCreateRecipeInsert
  \/ RunAddToUserSelect
  \/ RunAddToUserInsert

SpecPostRecipe == QueueInit /\ [][QueueNext]_vars

\* the request of client c is a POST whose path names the key the recipe
\* of its body is stored under
PostsRecipe(c) ==
  /\ req[c].route = "POST /recipes/:user_id/:recipe_id"
  /\ sanitize(req[c].body.recipe_id) = req[c].params.recipe_id

Associated(d, request) ==
  /\ request.params.recipe_id \in DOMAIN d.recipes
  /\ AssocCount(d, parseInt(request.params.user_id).n,
                request.params.recipe_id) > 0

====
